---- MODULE Spec2Model ----
(***************************************************************************)
(* Transaction builder of exp/txnbuild: a Transaction is populated by the  *)
(* caller, Build() stages the XDR transaction body, Sign() wraps it in an  *)
(* envelope and appends decorated signatures.                              *)
(*                                                                         *)
(* Conventions.                                                            *)
(*   - a Go error is the sequence of the message parts errors.Wrap joins   *)
(*     with ": " (outermost first); the nil error is the empty sequence.   *)
(*   - a nil pointer / nil interface is the record Nil.                    *)
(*   - a uint32 is a pair <<high 16 bits, low 16 bits>>, a uint64 is four  *)
(*     16-bit limbs (most significant first), so that the widths of the    *)
(*     wire integers are kept.                                             *)
(***************************************************************************)
EXTENDS Integers, Sequences, FiniteSets, TLC

VARIABLES
    SourceAccount,   \* Transaction.SourceAccount: the Account behind the interface
    Operations,      \* Transaction.Operations
    BaseFee,         \* Transaction.BaseFee (uint32)
    Memo,            \* Transaction.Memo (Nil or a Memo)
    MinTime,         \* Transaction.MinTime (int64)
    MaxTime,         \* Transaction.MaxTime (int64)
    Network,         \* Transaction.Network
    xdrTransaction,  \* Transaction.xdrTransaction, the staged body
    xdrEnvelope,     \* Transaction.xdrEnvelope (Nil or an envelope)
    lastCall,        \* the method called last
    ret,             \* the error it returned
    nBuild,          \* number of Build calls so far
    nSign,           \* number of Sign calls so far
    nSet,            \* number of SetTimeout and SetDefaultFee calls and field assignments after construction
    built,           \* outcome of the most recent Build: "never", "ok", "failed"
    signLog,         \* the signatures returned by the successful Sign calls, in call order
    args,            \* the arguments of the method called last
    out,             \* what it returned besides the error
    timebounds,      \* a Timebounds value
    madeBy,          \* how it was made: "literal" or the name of a factory
    allowTrust,      \* an AllowTrust value
    nEncode,         \* number of MarshalBinary and Base64 calls so far
    timeoutLog,      \* the MaxTime values the successful SetTimeout calls set, in call order
    hashLog          \* the hashes the Hash calls returned, each with the network and the body hashed

vars == <<SourceAccount, Operations, BaseFee, Memo, MinTime, MaxTime, Network,
          xdrTransaction, xdrEnvelope, lastCall, ret, nBuild, nSign, nSet, built,
          signLog, args, out, timebounds, madeBy, allowTrust, nEncode, timeoutLog, hashLog>>

\* the Transaction with the bookkeeping of its calls
txVars == <<SourceAccount, Operations, BaseFee, Memo, MinTime, MaxTime, Network,
            xdrTransaction, xdrEnvelope, nBuild, nSign, nSet, built, signLog, nEncode,
            timeoutLog, hashLog>>

\* the values the Transaction does not hold
valueVars == <<timebounds, madeBy, allowTrust>>

\* ------------------------------------------------------------------ bounds
MaxOps == 2
MaxBuilds == 2
MaxSigns == 2
MaxSets == 1
MaxEncodes == 2
MaxTimeouts == 2
MaxHashes == 3

\* ------------------------------------------------------------- primitives
Nil == [nil |-> TRUE]

NoError == <<>>

\* errors.New(msg)
New(msg) == <<msg>>

\* errors.Wrap(err, msg): nil stays nil, otherwise "msg: err"
Wrap(err, msg) == IF err = NoError THEN NoError ELSE <<msg>> \o err

\* errors.Wrap(err, fmt.Sprintf(...)), the formatted message given by its parts
WrapParts(err, parts) == IF err = NoError THEN NoError ELSE parts \o err

Range(s) == {s[i] : i \in 1..Len(s)}

Half == 2^16

\* a uint32 below 2^31 from its value
U32(n) == <<n \div Half, n % Half>>

\* xdr.Uint32(int(a) * n): the 64-bit product cut to its low 32 bits
MulU32(a, n) ==
    LET lo == a[2] * n
        hi == a[1] * n + (lo \div Half)
    IN  <<hi % Half, lo % Half>>

\* xdr.Uint64(x) of an int64 x: two's complement, four 16-bit limbs
Limbs(y) == <<0, 0, y \div Half, y % Half>>

ToUint64(x) ==
    IF x >= 0 THEN Limbs(x)
    ELSE [i \in 1..4 |-> (Half - 1) - Limbs((-x) - 1)[i]]

\* ------------------------------------------------ addresses and accounts
\* strkey account addresses that decode, and strings that do not
ValidAddresses == {"GB7BDSZU2Y27LYNLALKKALB52WS2IZWYBDGY6EQBLEED3TJOCVMZRH7H",
                   "GCCOBXW2XQNUSL467IEILE6MMCNRR66SSVL4YQADUNYYNUVREF3FIV2Z"}

MalformedAddresses == {"GB7BDSZU"}

\* the zero xdr.AccountId (no key)
ZeroAccountId == [Ed25519 |-> ""]

\* xdr.AccountId.SetAddress(address): the decoded key, or an error and the
\* receiver left as it was
SetAddress(aid, address) ==
    IF address \in ValidAddresses
    THEN [aid |-> [Ed25519 |-> address], err |-> NoError]
    ELSE [aid |-> aid, err |-> New("invalid address")]

\* Account.GetAccountID()
GetAccountID(acc) == acc.AccountID

\* Account.IncrementSequenceNumber(): the next sequence number, persisted in
\* the account; an account whose stored sequence does not parse fails and is
\* left alone
IncrementSequenceNumber(acc) ==
    IF acc.parses
    THEN [acc |-> [acc EXCEPT !.Sequence = @ + 1], seqnum |-> acc.Sequence + 1, err |-> NoError]
    ELSE [acc |-> acc, seqnum |-> 0, err |-> New("invalid sequence number")]

\* ------------------------------------------------------------------ assets
NativeAsset == [Type |-> "native"]

CreditAsset(code, issuer) == [Type |-> "credit", Code |-> code, Issuer |-> issuer]

\* length in bytes of the asset codes used
CodeLen(code) ==
    CASE code = "" -> 0
      [] code = "USD" -> 3
      [] code = "ABCDEFGHIJKL" -> 12
      [] code = "ABCDEFGHIJKLM" -> 13

\* Asset.IsNative()
IsNative(a) == a.Type = "native"

\* Asset.GetCode()
GetCode(a) == IF IsNative(a) THEN "" ELSE a.Code

\* Asset.ToXDR()
AssetToXDR(a) ==
    IF IsNative(a) THEN [asset |-> [Type |-> "AssetTypeNative"], err |-> NoError]
    ELSE IF CodeLen(a.Code) \in 1..12 /\ a.Issuer \in ValidAddresses
         THEN [asset |-> [Type |-> IF CodeLen(a.Code) <= 4 THEN "AssetTypeCreditAlphanum4"
                                   ELSE "AssetTypeCreditAlphanum12",
                          Code |-> a.Code, Issuer |-> a.Issuer],
               err |-> NoError]
         ELSE [asset |-> Nil, err |-> New("invalid asset")]

\* xdr.Asset.ToAllowTrustOpAsset(code)
ToAllowTrustOpAsset(xa, code) ==
    IF CodeLen(code) \in 1..12
    THEN [asset |-> [Type |-> IF CodeLen(code) <= 4 THEN "AssetTypeCreditAlphanum4"
                              ELSE "AssetTypeCreditAlphanum12",
                     Code |-> code],
          err |-> NoError]
    ELSE [asset |-> Nil, err |-> New("Asset code length is invalid")]

\* -------------------------------------------------------------- operations
\* xdr.Operation{}
EmptyOperation == [Body |-> Nil]

AllowTrust(trustor, type, authorize) ==
    [kind |-> "AllowTrust", Trustor |-> trustor, Type |-> type, Authorize |-> authorize]

Payment(destination, asset) ==
    [kind |-> "Payment", Destination |-> destination, Asset |-> asset]

Inflation == [kind |-> "Inflation"]

\* variant: a trustor address that does not decode is let through
AllowTrustBuildXDR_anyTrustor(at) ==
    LET trustor == SetAddress(ZeroAccountId, at.Trustor)
        xdrAsset == AssetToXDR(at.Type)
        opAsset == ToAllowTrustOpAsset(xdrAsset.asset, GetCode(at.Type))
    IN  IF IsNative(at.Type)
        THEN [op |-> EmptyOperation,
              err |-> New("Trustline doesn't exist for a native (XLM) asset")]
        ELSE IF xdrAsset.err # NoError
        THEN [op |-> EmptyOperation,
              err |-> Wrap(xdrAsset.err, "Can't convert asset for trustline to XDR")]
        ELSE IF opAsset.err # NoError
        THEN [op |-> EmptyOperation,
              err |-> Wrap(opAsset.err,
                           "Can't convert asset for trustline to allow trust asset type")]
        ELSE [op |-> [Body |-> [Type |-> "OperationTypeAllowTrust",
                                Trustor |-> trustor.aid,
                                Asset |-> opAsset.asset,
                                Authorize |-> at.Authorize]],
              err |-> NoError]

\* variant: the asset is looked at before the trustor address
AllowTrustBuildXDR_assetFirst(at) ==
    LET trustor == SetAddress(ZeroAccountId, at.Trustor)
        xdrAsset == AssetToXDR(at.Type)
        opAsset == ToAllowTrustOpAsset(xdrAsset.asset, GetCode(at.Type))
    IN  IF IsNative(at.Type)
        THEN [op |-> EmptyOperation,
              err |-> New("Trustline doesn't exist for a native (XLM) asset")]
        ELSE IF trustor.err # NoError
        THEN [op |-> EmptyOperation, err |-> Wrap(trustor.err, "Failed to set trustor address")]
        ELSE IF xdrAsset.err # NoError
        THEN [op |-> EmptyOperation,
              err |-> Wrap(xdrAsset.err, "Can't convert asset for trustline to XDR")]
        ELSE IF opAsset.err # NoError
        THEN [op |-> EmptyOperation,
              err |-> Wrap(opAsset.err,
                           "Can't convert asset for trustline to allow trust asset type")]
        ELSE [op |-> [Body |-> [Type |-> "OperationTypeAllowTrust",
                                Trustor |-> trustor.aid,
                                Asset |-> opAsset.asset,
                                Authorize |-> at.Authorize]],
              err |-> NoError]

\* AllowTrust.BuildXDR()
AllowTrustBuildXDR(at) ==
    LET trustor == SetAddress(ZeroAccountId, at.Trustor)
        xdrAsset == AssetToXDR(at.Type)
        opAsset == ToAllowTrustOpAsset(xdrAsset.asset, GetCode(at.Type))
    IN  IF trustor.err # NoError
        THEN [op |-> EmptyOperation, err |-> Wrap(trustor.err, "Failed to set trustor address")]
        ELSE IF IsNative(at.Type)
        THEN [op |-> EmptyOperation,
              err |-> New("Trustline doesn't exist for a native (XLM) asset")]
        ELSE IF xdrAsset.err # NoError
        THEN [op |-> EmptyOperation,
              err |-> Wrap(xdrAsset.err, "Can't convert asset for trustline to XDR")]
        ELSE IF opAsset.err # NoError
        THEN [op |-> EmptyOperation,
              err |-> Wrap(opAsset.err,
                           "Can't convert asset for trustline to allow trust asset type")]
        ELSE [op |-> [Body |-> [Type |-> "OperationTypeAllowTrust",
                                Trustor |-> trustor.aid,
                                Asset |-> opAsset.asset,
                                Authorize |-> at.Authorize]],
              err |-> NoError]

\* Payment.BuildXDR(): an asset is required
PaymentBuildXDR(p) ==
    IF p.Asset = Nil
    THEN [op |-> EmptyOperation, err |-> New("You must specify an asset for payment")]
    ELSE [op |-> [Body |-> [Type |-> "OperationTypePayment",
                            Destination |-> p.Destination,
                            Asset |-> AssetToXDR(p.Asset).asset]],
          err |-> NoError]

\* Inflation.BuildXDR()
InflationBuildXDR(i) ==
    [op |-> [Body |-> [Type |-> "OperationTypeInflation"]], err |-> NoError]

\* Operation.BuildXDR(), dispatched on the dynamic type
BuildXDR(op) ==
    CASE op.kind = "AllowTrust" -> AllowTrustBuildXDR(op)
      [] op.kind = "Payment" -> PaymentBuildXDR(op)
      [] op.kind = "Inflation" -> InflationBuildXDR(op)

\* fmt.Sprintf("%T", op)
TypeName(op) ==
    CASE op.kind = "AllowTrust" -> "*txnbuild.AllowTrust"
      [] op.kind = "Payment" -> "*txnbuild.Payment"
      [] op.kind = "Inflation" -> "*txnbuild.Inflation"

\* -------------------------------------------------------------------- memo
MemoText(len) == [kind |-> "MemoText", Len |-> len]

ZeroMemo == [Type |-> "MemoTypeMemoNone"]

\* Memo.ToXDR(): a text memo holds at most 28 bytes
MemoToXDR(m) ==
    IF m.Len <= 28
    THEN [memo |-> [Type |-> "MemoTypeMemoText", Len |-> m.Len], err |-> NoError]
    ELSE [memo |-> ZeroMemo, err |-> New("Memo text can't be longer than 28 bytes")]

\* -------------------------------------------------------------- timebounds
TimeoutInfinite == 0

\* variant: a maxTime of 0 gets no exemption from the comparison with minTime
Validate_noInfinite(tb) ==
    IF ~tb.wasBuilt
    THEN New("timebounds must be constructed using SetTimebounds(), SetTimeout(), or SetNoTimeout()")
    ELSE IF tb.MinTime < 0
    THEN New("invalid timebound: minTime cannot be negative")
    ELSE IF tb.MaxTime < 0
    THEN New("invalid timebound: maxTime cannot be negative")
    ELSE IF tb.MaxTime < tb.MinTime
    THEN New("invalid timebound: maxTime < minTime")
    ELSE NoError

\* variant: the range checks come before the check of the construction flag
Validate_rangeFirst(tb) ==
    IF tb.MinTime < 0
    THEN New("invalid timebound: minTime cannot be negative")
    ELSE IF tb.MaxTime < 0
    THEN New("invalid timebound: maxTime cannot be negative")
    ELSE IF tb.MaxTime # TimeoutInfinite /\ tb.MaxTime < tb.MinTime
    THEN New("invalid timebound: maxTime < minTime")
    ELSE IF ~tb.wasBuilt
    THEN New("timebounds must be constructed using SetTimebounds(), SetTimeout(), or SetNoTimeout()")
    ELSE NoError

\* variant: maxTime is checked before minTime
Validate_maxFirst(tb) ==
    IF ~tb.wasBuilt
    THEN New("timebounds must be constructed using SetTimebounds(), SetTimeout(), or SetNoTimeout()")
    ELSE IF tb.MaxTime < 0
    THEN New("invalid timebound: maxTime cannot be negative")
    ELSE IF tb.MinTime < 0
    THEN New("invalid timebound: minTime cannot be negative")
    ELSE IF tb.MaxTime # TimeoutInfinite /\ tb.MaxTime < tb.MinTime
    THEN New("invalid timebound: maxTime < minTime")
    ELSE NoError

\* Timebounds.Validate()
Validate(tb) ==
    IF ~tb.wasBuilt
    THEN New("timebounds must be constructed using SetTimebounds(), SetTimeout(), or SetNoTimeout()")
    ELSE IF tb.MinTime < 0
    THEN New("invalid timebound: minTime cannot be negative")
    ELSE IF tb.MaxTime < 0
    THEN New("invalid timebound: maxTime cannot be negative")
    ELSE IF tb.MaxTime # TimeoutInfinite /\ tb.MaxTime < tb.MinTime
    THEN New("invalid timebound: maxTime < minTime")
    ELSE NoError

\* Timebounds{MinTime: minTime, MaxTime: maxTime}: the flag is left at its zero value
TimeboundsLiteral(minTime, maxTime) ==
    [MinTime |-> minTime, MaxTime |-> maxTime, wasBuilt |-> FALSE]

\* variant: the two bounds are stored in each other's place
SetTimebounds_swapped(minTime, maxTime) ==
    [MinTime |-> maxTime, MaxTime |-> minTime, wasBuilt |-> TRUE]

\* SetTimebounds(minTime, maxTime)
SetTimebounds(minTime, maxTime) ==
    [MinTime |-> minTime, MaxTime |-> maxTime, wasBuilt |-> TRUE]

\* the factory SetTimeout(minTime, timeout), with the clock reading now
TimeboundsSetTimeout(minTime, timeout, now) ==
    [MinTime |-> minTime, MaxTime |-> now + timeout, wasBuilt |-> TRUE]

\* SetNoTimeout(minTime)
SetNoTimeout(minTime) ==
    [MinTime |-> minTime, MaxTime |-> TimeoutInfinite, wasBuilt |-> TRUE]

\* ------------------------------------------------------------ transaction
\* the zero xdr.Transaction
ZeroTransaction ==
    [SourceAccount |-> ZeroAccountId, Fee |-> U32(0), SeqNum |-> 0,
     TimeBounds |-> Nil, Memo |-> ZeroMemo, Operations |-> <<>>]

DefaultBaseFee == 100

\* variant: an explicit fee is taken as the total fee, whatever the operation count
SetDefaultFee_verbatim(baseFee, x) ==
    LET b == IF baseFee = U32(0) THEN U32(DefaultBaseFee) ELSE baseFee
    IN  [BaseFee |-> b,
         tx |-> IF x.Fee = U32(0)
                THEN [x EXCEPT !.Fee = IF baseFee = U32(0) THEN MulU32(b, Len(x.Operations))
                                       ELSE baseFee]
                ELSE x]

\* Transaction.SetDefaultFee()
SetDefaultFee(baseFee, x) ==
    LET b == IF baseFee = U32(0) THEN U32(DefaultBaseFee) ELSE baseFee
    IN  [BaseFee |-> b,
         tx |-> IF x.Fee = U32(0)
                THEN [x EXCEPT !.Fee = MulU32(b, Len(x.Operations))]
                ELSE x]

\* variant: the sequence number is requested twice
NextSequenceNumber_twice(acc) ==
    IF IncrementSequenceNumber(acc).err # NoError THEN IncrementSequenceNumber(acc)
    ELSE IncrementSequenceNumber(IncrementSequenceNumber(acc).acc)

\* Build: seqnum, err := tx.SourceAccount.IncrementSequenceNumber()
NextSequenceNumber(acc) == IncrementSequenceNumber(acc)

\* Build: tx.xdrTransaction.SeqNum = seqnum
StoreSeqNum(x, seqnum) == [x EXCEPT !.SeqNum = seqnum]

\* variant: each converted operation is put in front of the staged ones
RECURSIVE BuildOperations_prepend(_, _)
BuildOperations_prepend(staged, ops) ==
    IF ops = <<>> THEN [ops |-> staged, err |-> NoError]
    ELSE LET r == BuildXDR(Head(ops))
         IN  IF r.err # NoError
             THEN [ops |-> staged,
                   err |-> WrapParts(r.err, <<"Failed to build operation", TypeName(Head(ops))>>)]
             ELSE BuildOperations_prepend(<<r.op>> \o staged, Tail(ops))

\* variant: the loop goes on after a failing operation and reports the first error
RECURSIVE BuildOperations_continue(_, _)
BuildOperations_continue(staged, ops) ==
    IF ops = <<>> THEN [ops |-> staged, err |-> NoError]
    ELSE LET r == BuildXDR(Head(ops))
             rest == BuildOperations_continue(
                         IF r.err # NoError THEN staged ELSE Append(staged, r.op), Tail(ops))
         IN  IF r.err # NoError
             THEN [ops |-> rest.ops,
                   err |-> WrapParts(r.err, <<"Failed to build operation", TypeName(Head(ops))>>)]
             ELSE rest

\* Build: the loop over tx.Operations, appending to the staged operations
\* until the first operation that fails to convert
RECURSIVE BuildOperations(_, _)
BuildOperations(staged, ops) ==
    IF ops = <<>> THEN [ops |-> staged, err |-> NoError]
    ELSE LET r == BuildXDR(Head(ops))
         IN  IF r.err # NoError
             THEN [ops |-> staged,
                   err |-> WrapParts(r.err, <<"Failed to build operation", TypeName(Head(ops))>>)]
             ELSE BuildOperations(Append(staged, r.op), Tail(ops))

\* Build: the timebounds are attached only when one of them is positive
SetTimeBounds(x, minTime, maxTime) ==
    IF minTime > 0 \/ maxTime > 0
    THEN [x EXCEPT !.TimeBounds = [MinTime |-> ToUint64(minTime), MaxTime |-> ToUint64(maxTime)]]
    ELSE x

\* variant: the fee policy runs before the memo is converted
BuildResult_feeFirst(acc, ops, baseFee, memo, minTime, maxTime, x) ==
    LET src == SetAddress(x.SourceAccount, GetAccountID(acc))
        x1 == [x EXCEPT !.SourceAccount = src.aid]
        inc == NextSequenceNumber(acc)
        x2 == StoreSeqNum(x1, inc.seqnum)
        conv == BuildOperations(x2.Operations, ops)
        x3 == [x2 EXCEPT !.Operations = conv.ops]
        x4 == SetTimeBounds(x3, minTime, maxTime)
        fee == SetDefaultFee(baseFee, x4)
        m == IF memo = Nil THEN [memo |-> x4.Memo, err |-> NoError] ELSE MemoToXDR(memo)
    IN  IF inc.err # NoError
        THEN [acc |-> inc.acc, BaseFee |-> baseFee, tx |-> x1,
              err |-> Wrap(inc.err, "Failed to parse sequence number")]
        ELSE IF conv.err # NoError
        THEN [acc |-> inc.acc, BaseFee |-> baseFee, tx |-> x3, err |-> conv.err]
        ELSE IF m.err # NoError
        THEN [acc |-> inc.acc, BaseFee |-> fee.BaseFee, tx |-> fee.tx,
              err |-> Wrap(m.err, "Couldn't build memo XDR")]
        ELSE [acc |-> inc.acc, BaseFee |-> fee.BaseFee,
              tx |-> [fee.tx EXCEPT !.Memo = m.memo], err |-> NoError]

\* Transaction.Build(): the account, the public fields and the staged body in,
\* the account, BaseFee, the staged body and the error out
BuildResult(acc, ops, baseFee, memo, minTime, maxTime, x) ==
    LET src == SetAddress(x.SourceAccount, GetAccountID(acc))
        x1 == [x EXCEPT !.SourceAccount = src.aid]
        inc == NextSequenceNumber(acc)
        x2 == StoreSeqNum(x1, inc.seqnum)
        conv == BuildOperations(x2.Operations, ops)
        x3 == [x2 EXCEPT !.Operations = conv.ops]
        x4 == SetTimeBounds(x3, minTime, maxTime)
        m == IF memo = Nil THEN [memo |-> x4.Memo, err |-> NoError] ELSE MemoToXDR(memo)
        x5 == [x4 EXCEPT !.Memo = m.memo]
        fee == SetDefaultFee(baseFee, x5)
    IN  IF inc.err # NoError
        THEN [acc |-> inc.acc, BaseFee |-> baseFee, tx |-> x1,
              err |-> Wrap(inc.err, "Failed to parse sequence number")]
        ELSE IF conv.err # NoError
        THEN [acc |-> inc.acc, BaseFee |-> baseFee, tx |-> x3, err |-> conv.err]
        ELSE IF m.err # NoError
        THEN [acc |-> inc.acc, BaseFee |-> baseFee, tx |-> x4,
              err |-> Wrap(m.err, "Couldn't build memo XDR")]
        ELSE [acc |-> inc.acc, BaseFee |-> fee.BaseFee, tx |-> fee.tx, err |-> NoError]

\* variant: a successful SetTimeout also starts the window at the clock reading
SetTimeoutResult_fromNow(minTime, maxTime, timeout, now) ==
    IF maxTime # 0
    THEN [MinTime |-> minTime, MaxTime |-> maxTime,
          err |-> New("Transaction.MaxTime has already been set - setting timeout would overwrite it")]
    ELSE IF timeout <= 0
    THEN [MinTime |-> minTime, MaxTime |-> maxTime, err |-> New("timeout cannot be negative")]
    ELSE IF now + timeout < minTime
    THEN [MinTime |-> minTime, MaxTime |-> maxTime,
          err |-> <<"invalid timeout: provided timeout", ToString(timeout),
                    "would produce Transaction.MaxTime < Transaction.MinTime">>]
    ELSE [MinTime |-> now, MaxTime |-> now + timeout, err |-> NoError]

\* variant: SetTimeout overwrites a MaxTime that is already set
SetTimeoutResult_overwrites(minTime, maxTime, timeout, now) ==
    IF timeout <= 0
    THEN [MinTime |-> minTime, MaxTime |-> maxTime, err |-> New("timeout cannot be negative")]
    ELSE IF now + timeout < minTime
    THEN [MinTime |-> minTime, MaxTime |-> maxTime,
          err |-> <<"invalid timeout: provided timeout", ToString(timeout),
                    "would produce Transaction.MaxTime < Transaction.MinTime">>]
    ELSE [MinTime |-> minTime, MaxTime |-> now + timeout, err |-> NoError]

\* Transaction.SetTimeout(timeout) on a Transaction holding minTime and maxTime,
\* timeout in seconds, with the clock reading now: the two fields afterwards
\* and the error returned
SetTimeoutResult(minTime, maxTime, timeout, now) ==
    IF maxTime # 0
    THEN [MinTime |-> minTime, MaxTime |-> maxTime,
          err |-> New("Transaction.MaxTime has already been set - setting timeout would overwrite it")]
    ELSE IF timeout <= 0
    THEN [MinTime |-> minTime, MaxTime |-> maxTime, err |-> New("timeout cannot be negative")]
    ELSE IF now + timeout < minTime
    THEN [MinTime |-> minTime, MaxTime |-> maxTime,
          err |-> <<"invalid timeout: provided timeout", ToString(timeout),
                    "would produce Transaction.MaxTime < Transaction.MinTime">>]
    ELSE [MinTime |-> minTime, MaxTime |-> now + timeout, err |-> NoError]

\* ---------------------------------------------------------------- encoding
\* the empty string
EmptyString == <<>>

\* The wire form is a sequence of 16-bit units (two bytes each, high byte
\* first); an XDR word is two units. A 32-byte key is written as the one unit
\* that names it and the bytes of a memo text as zero units.
Word(n) == <<n \div Half, n % Half>>

\* the word that starts at unit i
WordAt(u, i) == u[i] * Half + u[i + 1]

\* the unit standing for the 32 bytes of a key, and back
AddressCode(a) ==
    CASE a = "" -> 0
      [] a = "GB7BDSZU2Y27LYNLALKKALB52WS2IZWYBDGY6EQBLEED3TJOCVMZRH7H" -> 1
      [] a = "GCCOBXW2XQNUSL467IEILE6MMCNRR66SSVL4YQADUNYYNUVREF3FIV2Z" -> 2

AddressAt(c) ==
    CASE c = 0 -> ""
      [] c = 1 -> "GB7BDSZU2Y27LYNLALKKALB52WS2IZWYBDGY6EQBLEED3TJOCVMZRH7H"
      [] c = 2 -> "GCCOBXW2XQNUSL467IEILE6MMCNRR66SSVL4YQADUNYYNUVREF3FIV2Z"

\* the unit standing for a signer, and back
KeyCode(kp) == CASE kp = "kp0" -> 1 [] kp = "kp1" -> 2

KeyAt(c) == CASE c = 1 -> "kp0" [] c = 2 -> "kp1"

\* the bytes of an asset code, padded with zero bytes to 4 or to 12, and back
CodeUnits(code) ==
    CASE code = "USD" -> <<21843, 17408>>
      [] code = "ABCDEFGHIJKL" -> <<16706, 17220, 17734, 18248, 18762, 19276>>

CodeAt(units) ==
    CASE units = <<21843, 17408>> -> "USD"
      [] units = <<16706, 17220, 17734, 18248, 18762, 19276>> -> "ABCDEFGHIJKL"

\* int64 from its four units (values below 2^31)
FromUint64(l) == l[3] * Half + l[4]

\* -- xdr.Marshal, type by type
\* AccountId: the key type PUBLIC_KEY_TYPE_ED25519 (0), then the key
EncodeAccountId(aid) == Word(0) \o <<AddressCode(aid.Ed25519)>>

\* *TimeBounds: absent (0), or present (1) with two uint64
EncodeTimeBounds(t) == IF t = Nil THEN Word(0) ELSE Word(1) \o t.MinTime \o t.MaxTime

\* Memo: MEMO_NONE (0), or MEMO_TEXT (1) with the length and the padded bytes
EncodeMemo(m) ==
    IF m.Type = "MemoTypeMemoNone" THEN Word(0)
    ELSE Word(1) \o Word(m.Len) \o [i \in 1..(2 * ((m.Len + 3) \div 4)) |-> 0]

\* the asset of an AllowTrustOp: the asset type (1 or 2), then the code
EncodeAllowTrustAsset(a) ==
    Word(IF a.Type = "AssetTypeCreditAlphanum4" THEN 1 ELSE 2) \o CodeUnits(a.Code)

\* OperationBody: the operation type (ALLOW_TRUST is 7, INFLATION is 9), then
\* the fields of that type
EncodeBody(b) ==
    CASE b.Type = "OperationTypeAllowTrust" ->
            Word(7) \o EncodeAccountId(b.Trustor) \o EncodeAllowTrustAsset(b.Asset)
                \o Word(IF b.Authorize THEN 1 ELSE 0)
      [] b.Type = "OperationTypeInflation" -> Word(9)

\* Operation: no source account of its own (0), then the body
EncodeOperation(op) == Word(0) \o EncodeBody(op.Body)

RECURSIVE EncodeOperations(_)
EncodeOperations(ops) ==
    IF ops = <<>> THEN <<>> ELSE EncodeOperation(Head(ops)) \o EncodeOperations(Tail(ops))

\* Transaction: source account, fee, sequence number, timebounds, memo, the
\* operations behind their count, the empty extension (0)
EncodeTransaction(x) ==
    EncodeAccountId(x.SourceAccount) \o x.Fee \o ToUint64(x.SeqNum)
        \o EncodeTimeBounds(x.TimeBounds) \o EncodeMemo(x.Memo)
        \o Word(Len(x.Operations)) \o EncodeOperations(x.Operations) \o Word(0)

\* ------------------------------------------------------------------ signing
Keys == {"kp0", "kp1"}

\* a signer whose SignDecorated returns an error
FailingKeys == {"kpFailing"}

\* the signers handed to Sign
Signers == Keys \cup FailingKeys

\* the zero xdr.DecoratedSignature
ZeroDecoratedSignature == [Hint |-> "", Signature |-> <<>>]

\* network.ID(passphrase): the SHA-256 of the passphrase, 32 bytes
NetworkId(passphrase) ==
    CASE passphrase = "Test SDF Network ; September 2015" ->
            <<52960, 12333, 22916, 19762, 48586, 37212, 33283, 56644,
              45887, 47998, 56345, 1310, 41850, 48863, 10476, 54386>>
      [] passphrase = "Public Global Stellar Network ; September 2015" ->
            <<31427, 14743, 21582, 12661, 53862, 48386, 9273, 45612,
              56086, 20620, 278, 16166, 58827, 10814, 4165, 43385>>

\* the digest of the units lo..hi of u, of two lanes of 15 bits: a pair of
\* units is a polynomial in them, a longer run combines the digests of its
\* two halves
RECURSIVE DigestTree(_, _, _)
DigestTree(u, lo, hi) ==
    IF hi = lo THEN <<u[lo] % 32749, u[lo] % 32719>>
    ELSE IF hi = lo + 1
    THEN <<(u[lo] * 4099 + u[hi]) % 32749, (u[lo] * 8209 + u[hi]) % 32719>>
    ELSE LET mid == (lo + hi) \div 2
             l == DigestTree(u, lo, mid)
             r == DigestTree(u, mid + 1, hi)
         IN  <<(l[1] * 4099 + r[1] + 1) % 32749, (l[2] * 8209 + r[2] + 1) % 32719>>

\* hash.Hash(bytes): the digest of the bytes
Digest(u) == DigestTree(u, 1, Len(u))

\* the zero [32]byte
ZeroHash == <<0, 0>>

\* the bytes network.HashTransaction digests: the network id, the envelope
\* type ENVELOPE_TYPE_TX (2), the encoded body
HashPayload(x, passphrase) == NetworkId(passphrase) \o Word(2) \o EncodeTransaction(x)

\* variant: the network id is left out of the bytes digested
HashTransaction_noNetworkId(x, passphrase) ==
    IF passphrase = ""
    THEN [hash |-> ZeroHash, err |-> New("empty network passphrase")]
    ELSE LET payload == Word(2) \o EncodeTransaction(x)
         IN  [hash |-> Digest(payload), err |-> NoError]

\* network.HashTransaction(tx, passphrase): no passphrase, no hash
HashTransaction(x, passphrase) ==
    IF passphrase = ""
    THEN [hash |-> ZeroHash, err |-> New("empty network passphrase")]
    ELSE LET payload == HashPayload(x, passphrase)
         IN  [hash |-> Digest(payload), err |-> NoError]

\* Transaction.Hash()
Hash(x, network) == HashTransaction(x, network)

\* keypair.Full.SignDecorated(hash): the decorated signature, or an error
SignDecorated(kp, hash) ==
    IF kp \in FailingKeys
    THEN [sig |-> ZeroDecoratedSignature, err |-> New("signing failed")]
    ELSE [sig |-> [Hint |-> kp, Signature |-> <<kp, hash>>], err |-> NoError]

\* variant: the staged body is copied into the envelope on every Sign
InitEnvelope_resnapshot(env, x) ==
    IF env = Nil THEN [Tx |-> x, Signatures |-> <<>>] ELSE [env EXCEPT !.Tx = x]

\* Sign: the envelope is created, and the staged body copied into it, when
\* there is none
InitEnvelope(env, x) ==
    IF env = Nil THEN [Tx |-> x, Signatures |-> <<>>] ELSE env

\* variant: the new signature replaces the stored ones
AppendSignature_replace(env, sig) == [env EXCEPT !.Signatures = <<sig>>]

\* Sign: tx.xdrEnvelope.Signatures = append(tx.xdrEnvelope.Signatures, sig)
AppendSignature(env, sig) == [env EXCEPT !.Signatures = Append(@, sig)]

\* Sign once the hash is there: e the envelope, d what SignDecorated returned
SignAppend(e, d) ==
    IF d.err # NoError
    THEN [env |-> e, err |-> Wrap(d.err, "Failed to sign transaction"), sig |-> Nil]
    ELSE [env |-> AppendSignature(e, d.sig), err |-> NoError, sig |-> d.sig]

\* Transaction.Sign(kp): the envelope, the error and the signature made (Nil
\* when none was made) out
SignResult(kp, env, x, network) ==
    LET e == InitEnvelope(env, x)
        h == Hash(x, network)
    IN  IF h.err # NoError
        THEN [env |-> e, err |-> Wrap(h.err, "Failed to hash transaction"), sig |-> Nil]
        ELSE SignAppend(e, SignDecorated(kp, h.hash))

\* -- the envelope on the wire
\* the bytes of a signature: the signer, then the hash signed
SignatureUnits(sig) == Word(KeyCode(sig[1])) \o sig[2]

\* DecoratedSignature: the hint (4 bytes), then the signature behind its
\* length in bytes
EncodeDecoratedSignature(d) ==
    Word(KeyCode(d.Hint)) \o Word(2 * Len(SignatureUnits(d.Signature)))
        \o SignatureUnits(d.Signature)

RECURSIVE EncodeSignatures(_)
EncodeSignatures(sigs) ==
    IF sigs = <<>> THEN <<>>
    ELSE EncodeDecoratedSignature(Head(sigs)) \o EncodeSignatures(Tail(sigs))

\* variant: the signatures are written last first
EncodeEnvelope_lastFirst(env) ==
    LET n == Len(env.Signatures)
    IN  EncodeTransaction(env.Tx) \o Word(n)
            \o EncodeSignatures([i \in 1..n |-> env.Signatures[n + 1 - i]])

\* TransactionEnvelope: the body, then the signatures behind their count
EncodeEnvelope(env) ==
    EncodeTransaction(env.Tx) \o Word(Len(env.Signatures)) \o EncodeSignatures(env.Signatures)

\* xdr.Marshal(w, env): a nil pointer cannot be marshalled
XdrMarshal(env) ==
    IF env = Nil
    THEN [bytes |-> <<>>, err |-> New("can't marshal nil pointer")]
    ELSE [bytes |-> EncodeEnvelope(env), err |-> NoError]

\* -- xdr.Unmarshal, type by type: the value read at unit i and the unit
\* after it
DecodeAccountId(u, i) == [val |-> [Ed25519 |-> AddressAt(u[i + 2])], next |-> i + 3]

DecodeTimeBounds(u, i) ==
    IF WordAt(u, i) = 0 THEN [val |-> Nil, next |-> i + 2]
    ELSE [val |-> [MinTime |-> SubSeq(u, i + 2, i + 5), MaxTime |-> SubSeq(u, i + 6, i + 9)],
          next |-> i + 10]

DecodeMemo(u, i) ==
    IF WordAt(u, i) = 0 THEN [val |-> [Type |-> "MemoTypeMemoNone"], next |-> i + 2]
    ELSE [val |-> [Type |-> "MemoTypeMemoText", Len |-> WordAt(u, i + 2)],
          next |-> i + 4 + 2 * ((WordAt(u, i + 2) + 3) \div 4)]

DecodeAllowTrustAsset(u, i) ==
    IF WordAt(u, i) = 1
    THEN [val |-> [Type |-> "AssetTypeCreditAlphanum4", Code |-> CodeAt(SubSeq(u, i + 2, i + 3))],
          next |-> i + 4]
    ELSE [val |-> [Type |-> "AssetTypeCreditAlphanum12", Code |-> CodeAt(SubSeq(u, i + 2, i + 7))],
          next |-> i + 8]

\* the AllowTrustOp whose trustor t and asset a have been read
DecodeAllowTrustOp(u, t, a) ==
    [val |-> [Type |-> "OperationTypeAllowTrust", Trustor |-> t.val, Asset |-> a.val,
              Authorize |-> WordAt(u, a.next) = 1],
     next |-> a.next + 2]

DecodeBody(u, i) ==
    IF WordAt(u, i) = 7
    THEN DecodeAllowTrustOp(u, DecodeAccountId(u, i + 2),
                            DecodeAllowTrustAsset(u, DecodeAccountId(u, i + 2).next))
    ELSE [val |-> [Type |-> "OperationTypeInflation"], next |-> i + 2]

DecodeOperation(u, i) ==
    [val |-> [Body |-> DecodeBody(u, i + 2).val], next |-> DecodeBody(u, i + 2).next]

\* n operations read from unit i on
RECURSIVE DecodeOperations(_, _, _)
DecodeOperations(u, i, n) ==
    IF n = 0 THEN [val |-> <<>>, next |-> i]
    ELSE LET op == DecodeOperation(u, i)
             rest == DecodeOperations(u, op.next, n - 1)
         IN  [val |-> <<op.val>> \o rest.val, next |-> rest.next]

\* the Transaction whose fields up to the memo m have been read
DecodeTransactionTail(u, src, t, m, ops) ==
    [val |-> [SourceAccount |-> src.val, Fee |-> SubSeq(u, src.next, src.next + 1),
              SeqNum |-> FromUint64(SubSeq(u, src.next + 2, src.next + 5)),
              TimeBounds |-> t.val, Memo |-> m.val, Operations |-> ops.val],
     next |-> ops.next + 2]

DecodeTransactionMemo(u, src, t, m) ==
    DecodeTransactionTail(u, src, t, m, DecodeOperations(u, m.next + 2, WordAt(u, m.next)))

DecodeTransactionBounds(u, src, t) == DecodeTransactionMemo(u, src, t, DecodeMemo(u, t.next))

DecodeTransaction(u, i) ==
    DecodeTransactionBounds(u, DecodeAccountId(u, i),
                            DecodeTimeBounds(u, DecodeAccountId(u, i).next + 6))

\* the signature read from the units given
SignatureAt(units) == <<KeyAt(WordAt(units, 1)), SubSeq(units, 3, Len(units))>>

DecodeDecoratedSignature(u, i) ==
    [val |-> [Hint |-> KeyAt(WordAt(u, i)),
              Signature |-> SignatureAt(SubSeq(u, i + 4, i + 3 + WordAt(u, i + 2) \div 2))],
     next |-> i + 4 + WordAt(u, i + 2) \div 2]

\* n signatures read from unit i on
RECURSIVE DecodeSignatures(_, _, _)
DecodeSignatures(u, i, n) ==
    IF n = 0 THEN [val |-> <<>>, next |-> i]
    ELSE LET d == DecodeDecoratedSignature(u, i)
             rest == DecodeSignatures(u, d.next, n - 1)
         IN  [val |-> <<d.val>> \o rest.val, next |-> rest.next]

\* the envelope whose body b has been read
DecodeEnvelopeTail(u, b) ==
    [Tx |-> b.val, Signatures |-> DecodeSignatures(u, b.next + 2, WordAt(u, b.next)).val]

\* xdr.Unmarshal(r, &env)
DecodeEnvelope(u) == DecodeEnvelopeTail(u, DecodeTransaction(u, 1))

\* -- base64
\* byte k of the units u, 0 beyond their end
ByteAt(u, k) ==
    IF k > 2 * Len(u) THEN 0
    ELSE IF k % 2 = 1 THEN u[(k + 1) \div 2] \div 256
    ELSE u[k \div 2] % 256

Pow24 == 2^24

\* base64.StdEncoding.EncodeToString(bs): the text in groups of four
\* characters, a group written as the 24 bits it spells, plus 2^24 for each
\* '=' the last group ends with
EncodeToString(bs) ==
    LET groups == (2 * Len(bs) + 2) \div 3
        pad == 3 * groups - 2 * Len(bs)
    IN  [g \in 1..groups |->
            ByteAt(bs, 3 * g - 2) * 65536 + ByteAt(bs, 3 * g - 1) * 256 + ByteAt(bs, 3 * g)
                + (IF g = groups THEN pad * Pow24 ELSE 0)]

\* byte k of the text str
TextByteAt(str, k) ==
    LET v == str[(k + 2) \div 3] % Pow24
    IN  CASE k % 3 = 1 -> v \div 65536
          [] k % 3 = 2 -> (v \div 256) % 256
          [] k % 3 = 0 -> v % 256

\* base64.StdEncoding.DecodeString(str)
DecodeString(str) ==
    LET bytes == IF str = <<>> THEN 0 ELSE 3 * Len(str) - str[Len(str)] \div Pow24
    IN  [j \in 1..(bytes \div 2) |-> TextByteAt(str, 2 * j - 1) * 256 + TextByteAt(str, 2 * j)]

\* Transaction.MarshalBinary()
MarshalBinary(env) ==
    LET r == XdrMarshal(env)
    IN  IF r.err # NoError
        THEN [bytes |-> Nil, err |-> Wrap(r.err, "Failed to marshal XDR")]
        ELSE [bytes |-> r.bytes, err |-> NoError]

\* variant: the error of MarshalBinary is dropped
Base64_dropsError(env) ==
    LET r == MarshalBinary(env)
    IN  [str |-> IF r.err # NoError THEN EmptyString ELSE EncodeToString(r.bytes),
         err |-> NoError]

\* Transaction.Base64()
Base64(env) ==
    LET r == MarshalBinary(env)
    IN  IF r.err # NoError
        THEN [str |-> EmptyString, err |-> Wrap(r.err, "Failed to get XDR bytestring")]
        ELSE [str |-> EncodeToString(r.bytes), err |-> NoError]

\* BuildSignEncode once Build and Sign have returned without error, b and s
\* being what they returned: the Base64 stage
AfterSign(b, s) ==
    LET e == Base64(s.env)
    IN  [acc |-> b.acc, BaseFee |-> b.BaseFee, tx |-> b.tx, env |-> s.env,
         signed |-> TRUE, sig |-> s.sig,
         str |-> IF e.err # NoError THEN EmptyString ELSE e.str,
         err |-> IF e.err # NoError THEN Wrap(e.err, "Couldn't encode transaction")
                 ELSE NoError]

\* BuildSignEncode once Build and Sign have returned, whatever Build returned
SignStage(b, s) ==
    IF s.err # NoError
    THEN [acc |-> b.acc, BaseFee |-> b.BaseFee, tx |-> b.tx, env |-> s.env,
          signed |-> TRUE, sig |-> Nil, str |-> EmptyString,
          err |-> Wrap(s.err, "Couldn't sign transaction")]
    ELSE AfterSign(b, s)

\* variant: a failed Build does not stop the pipeline before Sign
AfterBuild_signsAnyway(kp, env, network, b) ==
    IF b.err # NoError
    THEN [SignStage(b, SignResult(kp, env, b.tx, network))
             EXCEPT !.str = EmptyString,
                    !.err = Wrap(b.err, "Couldn't build transaction")]
    ELSE SignStage(b, SignResult(kp, env, b.tx, network))

\* BuildSignEncode once Build has returned b: the Sign stage and what follows
AfterBuild(kp, env, network, b) ==
    IF b.err # NoError
    THEN [acc |-> b.acc, BaseFee |-> b.BaseFee, tx |-> b.tx, env |-> env,
          signed |-> FALSE, sig |-> Nil, str |-> EmptyString,
          err |-> Wrap(b.err, "Couldn't build transaction")]
    ELSE SignStage(b, SignResult(kp, env, b.tx, network))

\* Transaction.BuildSignEncode(kp): the account, BaseFee, the staged body, the
\* envelope, whether Sign was called and the signature it made (Nil when it
\* made none), the string and the error out
BuildSignEncodeResult(kp, acc, ops, baseFee, memo, minTime, maxTime, x, env, network) ==
    AfterBuild(kp, env, network, BuildResult(acc, ops, baseFee, memo, minTime, maxTime, x))

\* ------------------------------------------------------------------ inputs
Accounts ==
    { [AccountID |-> "GB7BDSZU2Y27LYNLALKKALB52WS2IZWYBDGY6EQBLEED3TJOCVMZRH7H",
       Sequence |-> 3, parses |-> TRUE],
      [AccountID |-> "GB7BDSZU", Sequence |-> 3, parses |-> TRUE],
      [AccountID |-> "GB7BDSZU2Y27LYNLALKKALB52WS2IZWYBDGY6EQBLEED3TJOCVMZRH7H",
       Sequence |-> 3, parses |-> FALSE] }

TxOps ==
    { AllowTrust("GCCOBXW2XQNUSL467IEILE6MMCNRR66SSVL4YQADUNYYNUVREF3FIV2Z",
                 CreditAsset("USD", "GB7BDSZU2Y27LYNLALKKALB52WS2IZWYBDGY6EQBLEED3TJOCVMZRH7H"),
                 TRUE),
      AllowTrust("GCCOBXW2XQNUSL467IEILE6MMCNRR66SSVL4YQADUNYYNUVREF3FIV2Z", NativeAsset, TRUE),
      Inflation }

OpLists == UNION {[1..n -> TxOps] : n \in 0..MaxOps}

BaseFees == {U32(0), U32(250), <<2^15, 0>>}

Memos == {Nil, MemoText(5), MemoText(29)}

MinTimes == {-1, 0, 9}

MaxTimes == {0, 3}

Networks == {"", "Test SDF Network ; September 2015"}

\* the passphrases of the two networks
Passphrases == {"Test SDF Network ; September 2015",
                "Public Global Stellar Network ; September 2015"}

\* time.Duration values given to SetTimeout, in seconds, and time.Now()
Timeouts == {0, 2}

Clock == {4}

\* ----------------------------------------------------------------- actions
\* a method that returns an error only returns nothing besides it
NoValue == <<>>

\* what no call has touched yet
Fresh ==
    /\ xdrTransaction = ZeroTransaction
    /\ xdrEnvelope = Nil
    /\ lastCall = "new"
    /\ ret = NoError
    /\ nBuild = 0
    /\ nSign = 0
    /\ nSet = 0
    /\ built = "never"
    /\ signLog = <<>>
    /\ nEncode = 0
    /\ timeoutLog = <<>>
    /\ hashLog = <<>>
    /\ args = <<>>
    /\ out = NoValue

\* the values no call of these specifications uses
NoValues ==
    /\ timebounds = TimeboundsLiteral(0, 0)
    /\ madeBy = "literal"
    /\ allowTrust = AllowTrust("", Nil, FALSE)

\* the operation lists of the Transactions that are signed and encoded
TxOpLists ==
    { <<>>,
      <<Inflation>>,
      <<AllowTrust("GCCOBXW2XQNUSL467IEILE6MMCNRR66SSVL4YQADUNYYNUVREF3FIV2Z",
                   CreditAsset("USD", "GB7BDSZU2Y27LYNLALKKALB52WS2IZWYBDGY6EQBLEED3TJOCVMZRH7H"),
                   TRUE)>>,
      <<AllowTrust("GCCOBXW2XQNUSL467IEILE6MMCNRR66SSVL4YQADUNYYNUVREF3FIV2Z",
                   CreditAsset("USD", "GB7BDSZU2Y27LYNLALKKALB52WS2IZWYBDGY6EQBLEED3TJOCVMZRH7H"),
                   FALSE),
        Inflation>>,
      <<Inflation,
        AllowTrust("GCCOBXW2XQNUSL467IEILE6MMCNRR66SSVL4YQADUNYYNUVREF3FIV2Z", NativeAsset,
                   TRUE)>> }

\* a Transaction literal with its account, operations and network given
Init ==
    /\ SourceAccount \in Accounts
    /\ Operations \in TxOpLists
    /\ BaseFee = U32(0)
    /\ Memo = Nil
    /\ MinTime = 0
    /\ MaxTime = 0
    /\ Network \in Networks
    /\ Fresh
    /\ NoValues

\* a Transaction literal with every public field given
InitBuild ==
    /\ SourceAccount \in Accounts
    /\ Operations \in OpLists
    /\ BaseFee \in BaseFees
    /\ Memo \in Memos
    /\ MinTime \in MinTimes
    /\ MaxTime \in MaxTimes
    /\ Network \in {"Test SDF Network ; September 2015"}
    /\ Fresh
    /\ NoValues

Build ==
    /\ nBuild < MaxBuilds
    /\ LET r == BuildResult(SourceAccount, Operations, BaseFee, Memo, MinTime, MaxTime,
                            xdrTransaction)
       IN  /\ SourceAccount' = r.acc
           /\ BaseFee' = r.BaseFee
           /\ xdrTransaction' = r.tx
           /\ ret' = r.err
           /\ built' = IF r.err = NoError THEN "ok" ELSE "failed"
    /\ lastCall' = "Build"
    /\ args' = <<>>
    /\ out' = NoValue
    /\ nBuild' = nBuild + 1
    /\ UNCHANGED <<Operations, Memo, MinTime, MaxTime, Network, xdrEnvelope, nSign, nSet,
                   signLog>>
    /\ UNCHANGED valueVars
    /\ UNCHANGED <<nEncode, timeoutLog, hashLog>>

\* variant: signing consumes a sequence number of the source account
Sign_advancesSequence(kp) ==
    /\ nSign < MaxSigns
    /\ LET r == SignResult(kp, xdrEnvelope, xdrTransaction, Network)
       IN  /\ xdrEnvelope' = r.env
           /\ ret' = r.err
           /\ signLog' = IF r.err = NoError THEN Append(signLog, r.sig) ELSE signLog
    /\ SourceAccount' = IncrementSequenceNumber(SourceAccount).acc
    /\ lastCall' = "Sign"
    /\ args' = <<kp>>
    /\ out' = NoValue
    /\ nSign' = nSign + 1
    /\ UNCHANGED <<Operations, BaseFee, Memo, MinTime, MaxTime, Network,
                   xdrTransaction, nBuild, nSet, built>>
    /\ UNCHANGED valueVars
    /\ UNCHANGED <<nEncode, timeoutLog, hashLog>>

Sign(kp) ==
    /\ nSign < MaxSigns
    /\ LET r == SignResult(kp, xdrEnvelope, xdrTransaction, Network)
       IN  /\ xdrEnvelope' = r.env
           /\ ret' = r.err
           /\ signLog' = IF r.err = NoError THEN Append(signLog, r.sig) ELSE signLog
    /\ lastCall' = "Sign"
    /\ args' = <<kp>>
    /\ out' = NoValue
    /\ nSign' = nSign + 1
    /\ UNCHANGED <<SourceAccount, Operations, BaseFee, Memo, MinTime, MaxTime, Network,
                   xdrTransaction, nBuild, nSet, built>>
    /\ UNCHANGED valueVars
    /\ UNCHANGED <<nEncode, timeoutLog, hashLog>>

\* Transaction.SetTimeout(timeout), with the clock reading now, as one of at
\* most limit calls and assignments
SetTimeoutUpTo(limit, timeout, now) ==
    /\ nSet < limit
    /\ LET r == SetTimeoutResult(MinTime, MaxTime, timeout, now)
       IN  /\ MinTime' = r.MinTime
           /\ MaxTime' = r.MaxTime
           /\ ret' = r.err
           /\ timeoutLog' = IF r.err = NoError THEN Append(timeoutLog, r.MaxTime)
                             ELSE timeoutLog
    /\ lastCall' = "SetTimeout"
    /\ args' = <<timeout, now>>
    /\ out' = NoValue
    /\ nSet' = nSet + 1
    /\ UNCHANGED <<SourceAccount, Operations, BaseFee, Memo, Network,
                   xdrTransaction, xdrEnvelope, nBuild, nSign, built, signLog>>
    /\ UNCHANGED valueVars
    /\ UNCHANGED <<nEncode, hashLog>>

\* Transaction.SetTimeout(timeout), with the clock reading now
SetTimeout(timeout, now) == SetTimeoutUpTo(MaxSets, timeout, now)

\* the caller assigns tx.MaxTime
SetMaxTime(maxTime) ==
    /\ nSet < MaxSets
    /\ maxTime # MaxTime
    /\ MaxTime' = maxTime
    /\ lastCall' = "set"
    /\ args' = <<maxTime>>
    /\ out' = NoValue
    /\ ret' = NoError
    /\ nSet' = nSet + 1
    /\ UNCHANGED <<SourceAccount, Operations, BaseFee, Memo, MinTime, Network,
                   xdrTransaction, xdrEnvelope, nBuild, nSign, built, signLog>>
    /\ UNCHANGED valueVars
    /\ UNCHANGED <<nEncode, timeoutLog, hashLog>>

\* Transaction.SetDefaultFee() called by the caller
CallSetDefaultFee ==
    /\ nSet < MaxSets
    /\ LET r == SetDefaultFee(BaseFee, xdrTransaction)
       IN  /\ BaseFee' = r.BaseFee
           /\ xdrTransaction' = r.tx
    /\ lastCall' = "SetDefaultFee"
    /\ args' = <<>>
    /\ out' = NoValue
    /\ ret' = NoError
    /\ nSet' = nSet + 1
    /\ UNCHANGED <<SourceAccount, Operations, Memo, MinTime, MaxTime, Network,
                   xdrEnvelope, nBuild, nSign, built, signLog>>
    /\ UNCHANGED valueVars
    /\ UNCHANGED <<nEncode, timeoutLog, hashLog>>

\* the caller assigns tx.Network
SetNetwork(n) ==
    /\ nSet < MaxSets
    /\ n # Network
    /\ Network' = n
    /\ lastCall' = "set"
    /\ args' = <<n>>
    /\ out' = NoValue
    /\ ret' = NoError
    /\ nSet' = nSet + 1
    /\ UNCHANGED <<SourceAccount, Operations, BaseFee, Memo, MinTime, MaxTime,
                   xdrTransaction, xdrEnvelope, nBuild, nSign, built, signLog>>
    /\ UNCHANGED valueVars
    /\ UNCHANGED <<nEncode, timeoutLog, hashLog>>

Next ==
    \/ Build
    \/ \E kp \in Signers : Sign(kp)
    \/ \E n \in Networks : SetNetwork(n)

\* the whole life of a Transaction: built, signed, reconfigured
Spec == Init /\ [][Next]_vars

NextBuild ==
    \/ Build
    \/ \E timeout \in Timeouts, now \in Clock : SetTimeout(timeout, now)
    \/ \E maxTime \in MaxTimes : SetMaxTime(maxTime)
    \/ CallSetDefaultFee

\* the build pipeline over every combination of the public fields
SpecBuild == InitBuild /\ [][NextBuild]_vars

BuildSignEncode(kp) ==
    /\ nBuild < MaxBuilds
    /\ nSign < MaxSigns
    /\ LET r == BuildSignEncodeResult(kp, SourceAccount, Operations, BaseFee, Memo, MinTime,
                                      MaxTime, xdrTransaction, xdrEnvelope, Network)
       IN  /\ SourceAccount' = r.acc
           /\ BaseFee' = r.BaseFee
           /\ xdrTransaction' = r.tx
           /\ xdrEnvelope' = r.env
           /\ built' = IF r.err # NoError /\ Head(r.err) = "Couldn't build transaction"
                       THEN "failed" ELSE "ok"
           /\ nSign' = IF r.signed THEN nSign + 1 ELSE nSign
           /\ signLog' = IF r.sig # Nil THEN Append(signLog, r.sig) ELSE signLog
           /\ out' = r.str
           /\ ret' = r.err
    /\ lastCall' = "BuildSignEncode"
    /\ args' = <<kp>>
    /\ nBuild' = nBuild + 1
    /\ UNCHANGED <<Operations, Memo, MinTime, MaxTime, Network, nSet>>
    /\ UNCHANGED valueVars
    /\ UNCHANGED <<nEncode, timeoutLog, hashLog>>

\* tx.MarshalBinary()
CallMarshalBinary ==
    /\ nEncode < MaxEncodes
    /\ LET r == MarshalBinary(xdrEnvelope)
       IN  /\ out' = r.bytes
           /\ ret' = r.err
    /\ lastCall' = "MarshalBinary"
    /\ args' = <<>>
    /\ nEncode' = nEncode + 1
    /\ UNCHANGED <<SourceAccount, Operations, BaseFee, Memo, MinTime, MaxTime, Network,
                   xdrTransaction, xdrEnvelope, nBuild, nSign, nSet, built, signLog,
                   timeoutLog, hashLog>>
    /\ UNCHANGED valueVars

\* tx.Base64()
CallBase64 ==
    /\ nEncode < MaxEncodes
    /\ LET r == Base64(xdrEnvelope)
       IN  /\ out' = r.str
           /\ ret' = r.err
    /\ lastCall' = "Base64"
    /\ args' = <<>>
    /\ nEncode' = nEncode + 1
    /\ UNCHANGED <<SourceAccount, Operations, BaseFee, Memo, MinTime, MaxTime, Network,
                   xdrTransaction, xdrEnvelope, nBuild, nSign, nSet, built, signLog,
                   timeoutLog, hashLog>>
    /\ UNCHANGED valueVars

\* the signers handed to BuildSignEncode: one that signs and the failing one
PipelineSigners == {"kp0"} \cup FailingKeys

NextEncode ==
    \/ Build
    \/ \E kp \in Keys : Sign(kp)
    \/ \E kp \in PipelineSigners : BuildSignEncode(kp)
    \/ CallMarshalBinary
    \/ CallBase64

\* a Transaction built, signed and encoded in one call or step by step
SpecEncode == Init /\ [][NextEncode]_vars

\* the networks of the Transactions hashed
HashNetworks == {""} \cup Passphrases

\* a Transaction literal with its account, operations and network given, the
\* network one of the two or none
InitHash ==
    /\ SourceAccount \in Accounts
    /\ Operations \in TxOpLists
    /\ BaseFee = U32(0)
    /\ Memo = Nil
    /\ MinTime = 0
    /\ MaxTime = 0
    /\ Network \in HashNetworks
    /\ Fresh
    /\ NoValues

CallHash ==
    /\ Len(hashLog) < MaxHashes
    /\ LET h == Hash(xdrTransaction, Network)
       IN  /\ out' = h.hash
           /\ ret' = h.err
           /\ hashLog' = IF h.err # NoError THEN hashLog
                         ELSE Append(hashLog, [Network |-> Network, Tx |-> xdrTransaction,
                                               hash |-> h.hash])
    /\ lastCall' = "Hash"
    /\ args' = <<>>
    /\ UNCHANGED <<SourceAccount, Operations, BaseFee, Memo, MinTime, MaxTime, Network,
                   xdrTransaction, xdrEnvelope, nBuild, nSign, nSet, built, signLog,
                   nEncode, timeoutLog>>
    /\ UNCHANGED valueVars

NextHash ==
    \/ Build
    \/ \E n \in HashNetworks : SetNetwork(n)
    \/ CallHash

\* a Transaction hashed while it is built and moved between networks
SpecHash == InitHash /\ [][NextHash]_vars

\* ------------------------------------------------- timebounds on their own
\* the times and timeouts given to the Timebounds factories and literals
TimeValues == {-300, -1, 0, 1, 300}

\* a Transaction that takes no part
NoTransaction ==
    /\ SourceAccount \in {a \in Accounts : a.parses /\ GetAccountID(a) \in ValidAddresses}
    /\ Operations = <<>>
    /\ BaseFee = U32(0)
    /\ Memo = Nil
    /\ MinTime = 0
    /\ MaxTime = 0
    /\ Network = "Test SDF Network ; September 2015"
    /\ Fresh

\* a Timebounds literal: no factory made it
InitTimebounds ==
    /\ NoTransaction
    /\ \E minTime \in TimeValues, maxTime \in TimeValues :
          timebounds = TimeboundsLiteral(minTime, maxTime)
    /\ madeBy = "literal"
    /\ allowTrust = AllowTrust("", Nil, FALSE)

CallSetTimebounds(minTime, maxTime) ==
    /\ timebounds' = SetTimebounds(minTime, maxTime)
    /\ madeBy' = "SetTimebounds"
    /\ lastCall' = "SetTimebounds"
    /\ args' = <<minTime, maxTime>>
    /\ ret' = NoError
    /\ UNCHANGED <<txVars, out, allowTrust>>

\* the factory SetTimeout(minTime, timeout), with the clock reading now
CallSetTimeout(minTime, timeout, now) ==
    /\ timebounds' = TimeboundsSetTimeout(minTime, timeout, now)
    /\ madeBy' = "SetTimeout"
    /\ lastCall' = "txnbuild.SetTimeout"
    /\ args' = <<minTime, timeout, now>>
    /\ ret' = NoError
    /\ UNCHANGED <<txVars, out, allowTrust>>

CallSetNoTimeout(minTime) ==
    /\ timebounds' = SetNoTimeout(minTime)
    /\ madeBy' = "SetNoTimeout"
    /\ lastCall' = "SetNoTimeout"
    /\ args' = <<minTime>>
    /\ ret' = NoError
    /\ UNCHANGED <<txVars, out, allowTrust>>

\* timebounds.Validate()
CallValidate ==
    /\ ret' = Validate(timebounds)
    /\ lastCall' = "Validate"
    /\ args' = <<>>
    /\ UNCHANGED <<txVars, out, timebounds, madeBy, allowTrust>>

NextTimebounds ==
    \/ \E minTime \in TimeValues, maxTime \in TimeValues : CallSetTimebounds(minTime, maxTime)
    \/ \E minTime \in TimeValues, timeout \in TimeValues, now \in Clock :
          CallSetTimeout(minTime, timeout, now)
    \/ \E minTime \in TimeValues : CallSetNoTimeout(minTime)
    \/ CallValidate

\* Timebounds values made and validated
SpecTimebounds == InitTimebounds /\ [][NextTimebounds]_vars

\* ------------------------------------------------- AllowTrust on its own
Trustors == ValidAddresses \cup MalformedAddresses \cup {""}

\* the native asset and credit assets: codes of 3, 12, 13 and 0 bytes, issuers
\* that decode and one that does not
TrustAssets ==
    { NativeAsset,
      CreditAsset("USD", "GB7BDSZU2Y27LYNLALKKALB52WS2IZWYBDGY6EQBLEED3TJOCVMZRH7H"),
      CreditAsset("USD", "GCCOBXW2XQNUSL467IEILE6MMCNRR66SSVL4YQADUNYYNUVREF3FIV2Z"),
      CreditAsset("ABCDEFGHIJKL", "GB7BDSZU2Y27LYNLALKKALB52WS2IZWYBDGY6EQBLEED3TJOCVMZRH7H"),
      CreditAsset("ABCDEFGHIJKLM", "GB7BDSZU2Y27LYNLALKKALB52WS2IZWYBDGY6EQBLEED3TJOCVMZRH7H"),
      CreditAsset("", "GB7BDSZU2Y27LYNLALKKALB52WS2IZWYBDGY6EQBLEED3TJOCVMZRH7H"),
      CreditAsset("USD", "GB7BDSZU") }

\* an AllowTrust literal
InitAllowTrust ==
    /\ NoTransaction
    /\ timebounds = TimeboundsLiteral(0, 0)
    /\ madeBy = "literal"
    /\ \E trustor \in Trustors, type \in TrustAssets, authorize \in BOOLEAN :
          allowTrust = AllowTrust(trustor, type, authorize)

\* allowTrust.BuildXDR()
CallBuildXDR ==
    /\ LET r == AllowTrustBuildXDR(allowTrust)
       IN  /\ out' = r.op
           /\ ret' = r.err
    /\ lastCall' = "BuildXDR"
    /\ args' = <<>>
    /\ UNCHANGED <<txVars, timebounds, madeBy, allowTrust>>

NextAllowTrust == CallBuildXDR

\* AllowTrust values converted to the wire
SpecAllowTrust == InitAllowTrust /\ [][NextAllowTrust]_vars

\* ------------------------------------------------ SetTimeout called again
\* time.Duration values given to SetTimeout, in seconds: negative, zero, short
\* and long
Durations == {-1, 0, 2, 20}

\* readings of time.Now().Unix()
ClockReadings == {4, 7}

\* a Transaction literal with MinTime and MaxTime given
InitTimeout ==
    /\ SourceAccount \in {a \in Accounts : a.parses /\ GetAccountID(a) \in ValidAddresses}
    /\ Operations = <<>>
    /\ BaseFee = U32(0)
    /\ Memo = Nil
    /\ MinTime \in MinTimes
    /\ MaxTime \in MaxTimes
    /\ Network = "Test SDF Network ; September 2015"
    /\ Fresh
    /\ NoValues

NextTimeout ==
    \/ \E timeout \in Durations, now \in ClockReadings :
          SetTimeoutUpTo(MaxTimeouts, timeout, now)
    \/ Build

\* SetTimeout called several times on one Transaction, Build in between
SpecTimeout == InitTimeout /\ [][NextTimeout]_vars

\* -------------------------------------------------------------- properties
\* the wire conversions of a list of operations that all convert
Converted(ops) == [i \in 1..Len(ops) |-> BuildXDR(ops[i]).op]

\* position of the first operation that fails to convert, 0 when all convert
FirstFailing(ops) ==
    IF \A i \in 1..Len(ops) : BuildXDR(ops[i]).err = NoError THEN 0
    ELSE CHOOSE i \in 1..Len(ops) :
            /\ BuildXDR(ops[i]).err # NoError
            /\ \A j \in 1..(i - 1) : BuildXDR(ops[j]).err = NoError

\* a step that is a call of Build / of Sign
BuildStep == nBuild' = nBuild + 1

SignStep == nSign' = nSign + 1

\* the signatures held by the envelope
Signatures == IF xdrEnvelope = Nil THEN <<>> ELSE xdrEnvelope.Signatures

\* the Timebounds a Transaction's MinTime and MaxTime stand for: the zero
\* value is the one no factory produced
TxTimebounds ==
    [MinTime |-> MinTime, MaxTime |-> MaxTime, wasBuilt |-> (MinTime # 0 \/ MaxTime # 0)]

\* C1: after the first Build of a Transaction succeeded, the staged wire
\* operations are the conversions of the declared operations, one for one
\* and in the declared order.
C1_OperationOrder ==
    (lastCall = "Build" /\ ret = NoError /\ nBuild = 1) =>
        /\ Len(xdrTransaction.Operations) = Len(Operations)
        /\ \A i \in 1..Len(Operations) :
              xdrTransaction.Operations[i] = BuildXDR(Operations[i]).op

C1_Witness ==
    /\ lastCall = "Build" /\ ret = NoError /\ nBuild = 1
    /\ Len(Operations) = 2
    /\ Operations[1] # Operations[2]
    /\ xdrTransaction.Operations = Converted(Operations)

\* C2 as claimed: a successful Build with no explicit fee yields the wire fee
\* 100 * N, and with an explicit non-zero fee F it yields the wire fee F.
C2_ExplicitFeeVerbatim ==
    [][(BuildStep /\ ret' = NoError) =>
          xdrTransaction'.Fee = IF BaseFee = U32(0) THEN U32(100 * Len(Operations))
                                ELSE BaseFee]_vars

\* C2 amended: BaseFee is the fee per operation. A successful Build uses 100
\* when BaseFee is 0 and BaseFee otherwise, and leaves that value in BaseFee;
\* a staged wire fee of 0 becomes base fee times the number of staged wire
\* operations, cut to 32 bits, and a non-zero staged wire fee is kept. On the
\* first Build that is 100 * N, or F * N mod 2^32 for an explicit BaseFee F.
C2_FeePerOperation ==
    [][(BuildStep /\ ret' = NoError) =>
          LET base == IF BaseFee = U32(0) THEN U32(100) ELSE BaseFee
          IN  /\ BaseFee' = base
              /\ xdrTransaction'.Fee =
                    IF xdrTransaction.Fee = U32(0)
                    THEN MulU32(base, Len(xdrTransaction'.Operations))
                    ELSE xdrTransaction.Fee
              /\ nBuild = 0 => xdrTransaction'.Fee = MulU32(base, Len(Operations))]_vars

C2_Witness ==
    /\ lastCall = "Build" /\ ret = NoError /\ nBuild = 1
    /\ BaseFee = U32(250)
    /\ Len(Operations) = 2
    /\ xdrTransaction.Fee = U32(500)

\* C3: a successful Build advances the account's sequence number by exactly
\* one step, and the sequence number of the staged body is the advanced one.
C3_SequenceOnce ==
    [][(BuildStep /\ ret' = NoError) =>
          /\ SourceAccount'.Sequence = SourceAccount.Sequence + 1
          /\ xdrTransaction'.SeqNum = SourceAccount'.Sequence]_vars

C3_Witness ==
    /\ lastCall = "Build" /\ ret = NoError /\ nBuild = 2
    /\ SourceAccount.Sequence = 5
    /\ xdrTransaction.SeqNum = 5

\* C4: the envelope holds exactly the signatures of the successful Sign
\* calls, in call order (none before the first Sign).
C4_SignaturesInCallOrder == Signatures = signLog

C4_Witness ==
    /\ Len(signLog) = 2
    /\ signLog[1].Hint # signLog[2].Hint
    /\ Signatures = signLog

\* C5: the envelope is created by a Sign call, with the staged body of that
\* moment, and once it exists no step changes the body it holds.
C5_SnapshotOnce ==
    [][/\ (xdrEnvelope = Nil /\ xdrEnvelope' # Nil) =>
              (SignStep /\ xdrEnvelope'.Tx = xdrTransaction)
       /\ xdrEnvelope # Nil =>
              (xdrEnvelope' # Nil /\ xdrEnvelope'.Tx = xdrEnvelope.Tx)]_vars

C5_Witness ==
    /\ xdrEnvelope # Nil
    /\ Len(Signatures) = 2
    /\ built = "ok"
    /\ xdrEnvelope.Tx # xdrTransaction

\* C6: a Sign call on a Transaction whose most recent Build did not succeed
\* (never built, or failed) neither creates an envelope nor appends a
\* signature.
C6_SignOnlyWhenBuilt ==
    [][(SignStep /\ built # "ok") => xdrEnvelope' = xdrEnvelope]_vars

\* C7: wire operations never accumulate over repeated Build calls: after a
\* Build the staged list is no longer than the declared one, and after a
\* successful Build it is the single conversion of the declared operations.
C7_NoAccumulation ==
    lastCall = "Build" =>
        /\ Len(xdrTransaction.Operations) <= Len(Operations)
        /\ ret = NoError => xdrTransaction.Operations = Converted(Operations)

\* C8 as claimed: when an operation fails to convert, Build stages the
\* operations before the first failing one and no later one, and its error
\* names the position and the kind of that operation and wraps its error.
C8_ErrorNamesPosition ==
    [][(BuildStep /\ SourceAccount.parses /\ FirstFailing(Operations) # 0) =>
          LET f == FirstFailing(Operations)
          IN  /\ xdrTransaction'.Operations =
                    xdrTransaction.Operations \o Converted(SubSeq(Operations, 1, f - 1))
              /\ ret' # NoError
              /\ TypeName(Operations[f]) \in Range(ret')
              /\ ToString(f) \in Range(ret')]_vars

\* C8 amended: when an operation fails to convert, Build stages the
\* operations before the first failing one and no later one, and returns
\* "Failed to build operation <type of that operation>: <its error>", which
\* names the kind of the operation and not its position.
C8_FirstFailure ==
    [][(BuildStep /\ SourceAccount.parses /\ FirstFailing(Operations) # 0) =>
          LET f == FirstFailing(Operations)
          IN  /\ xdrTransaction'.Operations =
                    xdrTransaction.Operations \o Converted(SubSeq(Operations, 1, f - 1))
              /\ ret' = <<"Failed to build operation", TypeName(Operations[f])>>
                           \o BuildXDR(Operations[f]).err]_vars

C8_Witness ==
    /\ lastCall = "Build" /\ nBuild = 1
    /\ SourceAccount.parses
    /\ Len(Operations) = 2
    /\ FirstFailing(Operations) = 1
    /\ BuildXDR(Operations[2]).err = NoError
    /\ xdrTransaction.Operations = <<>>
    /\ ret = <<"Failed to build operation", "*txnbuild.AllowTrust",
               "Trustline doesn't exist for a native (XLM) asset">>

\* C9: Build of a Transaction whose source account address is malformed
\* fails, and leaves the account's sequence number alone.
C9_MalformedSourceRejected ==
    [][(BuildStep /\ GetAccountID(SourceAccount) \notin ValidAddresses) =>
          (ret' # NoError /\ SourceAccount' = SourceAccount)]_vars

\* C10: Build succeeds only on a Transaction whose timebounds were set and
\* pass Validate.
C10_TimeboundsRequired ==
    (lastCall = "Build" /\ ret = NoError) => Validate(TxTimebounds) = NoError

\* C11 as claimed: after a Build that gets through, the staged body carries
\* wire timebounds if and only if MinTime > 0 or MaxTime > 0, they are made
\* of MinTime and MaxTime, and with both zero the body has no timebounds at
\* all.
C11_TimeboundsWhenSet ==
    (lastCall = "Build" /\ ret = NoError) =>
        IF MinTime > 0 \/ MaxTime > 0
        THEN /\ xdrTransaction.TimeBounds # Nil
             /\ xdrTransaction.TimeBounds.MinTime = ToUint64(MinTime)
             /\ xdrTransaction.TimeBounds.MaxTime = ToUint64(MaxTime)
        ELSE xdrTransaction.TimeBounds = Nil

\* C12: Validate succeeds on every Timebounds a factory made whose MinTime is
\* not negative and whose MaxTime is 0 or at least MinTime.
C12_FactoryBoundsValid ==
    (/\ lastCall = "Validate"
     /\ madeBy \in {"SetTimebounds", "SetTimeout", "SetNoTimeout"}
     /\ timebounds.MinTime >= 0
     /\ (timebounds.MaxTime = 0 \/ timebounds.MaxTime >= timebounds.MinTime))
        => ret = NoError

C12_Witness ==
    /\ lastCall = "Validate"
    /\ madeBy = "SetNoTimeout"
    /\ timebounds.MinTime = 300
    /\ timebounds.MaxTime = 0
    /\ ret = NoError

\* C13: Validate of a Timebounds no factory made returns the "must be
\* constructed" error, whatever MinTime and MaxTime are.
C13_LiteralRejected ==
    (lastCall = "Validate" /\ madeBy = "literal") =>
        ret = <<"timebounds must be constructed using SetTimebounds(), SetTimeout(), or SetNoTimeout()">>

C13_Witness ==
    /\ lastCall = "Validate"
    /\ madeBy = "literal"
    /\ timebounds.MinTime = -1
    /\ timebounds.MaxTime = 300
    /\ ret = <<"timebounds must be constructed using SetTimebounds(), SetTimeout(), or SetNoTimeout()">>

\* C14: Validate returns the error of the first check that fails, in the
\* order: not constructed, MinTime negative, MaxTime negative, MaxTime not 0
\* and below MinTime; it succeeds exactly when no check fails.
C14_FirstFailingCheck ==
    lastCall = "Validate" =>
        LET notBuilt == ~timebounds.wasBuilt
            minNeg == timebounds.MinTime < 0
            maxNeg == timebounds.MaxTime < 0
            below == timebounds.MaxTime # 0 /\ timebounds.MaxTime < timebounds.MinTime
        IN  /\ notBuilt =>
                  ret = <<"timebounds must be constructed using SetTimebounds(), SetTimeout(), or SetNoTimeout()">>
            /\ (~notBuilt /\ minNeg) =>
                  ret = <<"invalid timebound: minTime cannot be negative">>
            /\ (~notBuilt /\ ~minNeg /\ maxNeg) =>
                  ret = <<"invalid timebound: maxTime cannot be negative">>
            /\ (~notBuilt /\ ~minNeg /\ ~maxNeg /\ below) =>
                  ret = <<"invalid timebound: maxTime < minTime">>
            /\ (ret = NoError) <=> (~notBuilt /\ ~minNeg /\ ~maxNeg /\ ~below)

C14_Witness ==
    /\ lastCall = "Validate"
    /\ madeBy = "SetTimebounds"
    /\ timebounds.MinTime = -1
    /\ timebounds.MaxTime = -300
    /\ ret = <<"invalid timebound: minTime cannot be negative">>

\* C18: whatever its arguments, each factory returns a Timebounds marked as
\* constructed: SetTimebounds with the two bounds as given, SetNoTimeout with
\* the given MinTime and MaxTime 0, SetTimeout with the given MinTime and
\* MaxTime the clock reading plus the timeout.
C18_FactoriesStoreVerbatim ==
    /\ lastCall = "SetTimebounds" =>
          timebounds = [MinTime |-> args[1], MaxTime |-> args[2], wasBuilt |-> TRUE]
    /\ lastCall = "SetNoTimeout" =>
          timebounds = [MinTime |-> args[1], MaxTime |-> 0, wasBuilt |-> TRUE]
    /\ lastCall = "txnbuild.SetTimeout" =>
          timebounds = [MinTime |-> args[1], MaxTime |-> args[3] + args[2], wasBuilt |-> TRUE]

C18_Witness ==
    /\ lastCall = "SetTimebounds"
    /\ args = <<300, -1>>
    /\ timebounds = [MinTime |-> 300, MaxTime |-> -1, wasBuilt |-> TRUE]

\* C15: the hash of a Transaction is decided by its network and its built
\* body: of the hashes the Hash calls returned, two taken of equal bodies
\* are equal when the networks were the same and differ when the networks
\* differed.
C15_HashSeparatesNetworks ==
    \A i \in 1..Len(hashLog), j \in 1..Len(hashLog) :
        hashLog[i].Tx = hashLog[j].Tx =>
            ((hashLog[i].Network = hashLog[j].Network) <=> (hashLog[i].hash = hashLog[j].hash))

C15_Witness ==
    /\ lastCall = "Hash"
    /\ Len(hashLog) = 3
    /\ built = "ok"
    /\ Len(hashLog[1].Tx.Operations) = 2
    /\ hashLog[2].Tx = hashLog[1].Tx
    /\ hashLog[3].Tx = hashLog[1].Tx
    /\ hashLog[1].Network = "Test SDF Network ; September 2015"
    /\ hashLog[2].Network = "Test SDF Network ; September 2015"
    /\ hashLog[3].Network = "Public Global Stellar Network ; September 2015"
    /\ hashLog[2].hash = hashLog[1].hash
    /\ hashLog[3].hash # hashLog[1].hash
    /\ out = hashLog[3].hash

\* C16: a Sign call, whether it succeeds or fails, leaves the staged body,
\* the account with its sequence number and the public fields as they were;
\* it changes the envelope only, which exists afterwards, keeps the
\* signatures it had and gains one when the call succeeds.
C16_SignChangesEnvelopeOnly ==
    [][(SignStep /\ lastCall' = "Sign") =>
          /\ xdrTransaction' = xdrTransaction
          /\ SourceAccount' = SourceAccount
          /\ UNCHANGED <<Operations, BaseFee, Memo, MinTime, MaxTime, Network>>
          /\ xdrEnvelope' # Nil
          /\ Len(Signatures') = Len(Signatures) + (IF ret' = NoError THEN 1 ELSE 0)
          /\ SubSeq(Signatures', 1, Len(Signatures)) = Signatures]_vars

C16_Witness ==
    /\ lastCall = "Sign"
    /\ nSign = 2
    /\ ret # NoError
    /\ built = "ok"
    /\ Len(Signatures) = 1
    /\ xdrTransaction.SeqNum = SourceAccount.Sequence

\* the base64 form of the envelope env
EnvelopeText(env) ==
    LET bs == EncodeEnvelope(env)
    IN  EncodeToString(bs)

\* the Build inside a BuildSignEncode call fails on the Transaction as it is
BuildWouldFail ==
    BuildResult(SourceAccount, Operations, BaseFee, Memo, MinTime, MaxTime,
                xdrTransaction).err # NoError

\* C17: BuildSignEncode runs Build, then Sign, then Base64, and stops at the
\* first that fails. When Build fails, Sign is not called: the envelope is as
\* it was and no signature is added. When Build succeeds Sign is called on
\* the body just built; when Sign fails nothing is encoded. Whenever the call
\* fails the string is empty and the error is the failing stage's error
\* under that stage's context; when it succeeds the string is the base64
\* form of the envelope.
C17_StopsAtFirstFailure ==
    [][(BuildStep /\ lastCall' = "BuildSignEncode") =>
          /\ BuildWouldFail =>
                /\ nSign' = nSign
                /\ xdrEnvelope' = xdrEnvelope
                /\ signLog' = signLog
                /\ out' = EmptyString
                /\ Head(ret') = "Couldn't build transaction"
                /\ Len(ret') > 1
          /\ ~BuildWouldFail =>
                /\ nSign' = nSign + 1
                /\ xdrEnvelope' # Nil
                /\ xdrEnvelope = Nil => xdrEnvelope'.Tx = xdrTransaction'
          /\ (~BuildWouldFail /\ signLog' = signLog) =>
                /\ out' = EmptyString
                /\ Head(ret') = "Couldn't sign transaction"
                /\ Len(ret') > 1
          /\ (~BuildWouldFail /\ signLog' # signLog) =>
                /\ ret' = NoError
                /\ out' = EnvelopeText(xdrEnvelope')
                /\ xdrEnvelope'.Signatures = signLog'
          /\ ret' # NoError => out' = EmptyString]_vars

C17_Witness ==
    /\ lastCall = "BuildSignEncode"
    /\ nBuild = 1
    /\ nSign = 1
    /\ built = "ok"
    /\ xdrEnvelope # Nil
    /\ xdrEnvelope.Signatures = <<>>
    /\ out = EmptyString
    /\ ret = <<"Couldn't sign transaction", "Failed to hash transaction",
               "empty network passphrase">>

\* a step that is a call of Transaction.SetTimeout
SetTimeoutStep == nSet' = nSet + 1 /\ lastCall' = "SetTimeout"

\* C19: a call of Transaction.SetTimeout leaves MinTime as it was, whatever
\* the call returns, and when it succeeds MaxTime is the clock reading plus
\* the timeout.
C19_SetTimeoutKeepsMinTime ==
    [][SetTimeoutStep =>
          /\ MinTime' = MinTime
          /\ ret' = NoError => MaxTime' = args'[2] + args'[1]]_vars

C19_Witness ==
    /\ lastCall = "SetTimeout"
    /\ ret = NoError
    /\ args = <<2, 4>>
    /\ MinTime = -1
    /\ MaxTime = 6

\* C20: BuildXDR of an AllowTrust returns an error and the empty wire
\* operation whenever the asset is native or the trustor address does not
\* decode; when it returns no error the asset is not native, the trustor
\* decodes and the wire operation is not empty. The call changes neither the
\* AllowTrust nor anything else.
C20_AllowTrustRejects ==
    [][lastCall' = "BuildXDR" =>
          LET native == allowTrust.Type = [Type |-> "native"]
              badTrustor == allowTrust.Trustor \notin ValidAddresses
          IN  /\ (native \/ badTrustor) => (ret' # NoError /\ out' = [Body |-> Nil])
              /\ ret' = NoError => (~native /\ ~badTrustor /\ out'.Body # Nil)
              /\ ret' # NoError => out' = [Body |-> Nil]
              /\ allowTrust' = allowTrust
              /\ UNCHANGED txVars]_vars

C20_Witness ==
    /\ lastCall = "BuildXDR"
    /\ allowTrust.Type = [Type |-> "native"]
    /\ allowTrust.Trustor \in ValidAddresses
    /\ ret = <<"Trustline doesn't exist for a native (XLM) asset">>
    /\ out = [Body |-> Nil]

\* a step that is a call of MarshalBinary or of Base64
EncodeStep == nEncode' = nEncode + 1

\* C21: a call of MarshalBinary or of Base64 leaves the staged body, the
\* envelope and the account as they were; a call that follows a call of the
\* same method returns what that call returned; and a Base64 call that
\* follows a failed MarshalBinary call fails, with that error wrapped.
C21_EncodingReadOnly ==
    [][EncodeStep =>
          /\ xdrTransaction' = xdrTransaction
          /\ xdrEnvelope' = xdrEnvelope
          /\ SourceAccount' = SourceAccount
          /\ lastCall' = lastCall => (out' = out /\ ret' = ret)
          /\ (lastCall = "MarshalBinary" /\ lastCall' = "Base64" /\ ret # NoError) =>
                ret' = <<"Failed to get XDR bytestring">> \o ret]_vars

C21_Witness ==
    /\ lastCall = "Base64"
    /\ nEncode = 2
    /\ Len(Signatures) = 1
    /\ built = "ok"
    /\ ret = NoError
    /\ out = EnvelopeText(xdrEnvelope)

\* C22: the string Base64 returns for a signed Transaction decodes to the
\* envelope the Transaction holds: the same body, field for field and
\* operation for operation, and the same signatures in the same order.
C22_RoundTrip ==
    (lastCall = "Base64" /\ ret = NoError) =>
        LET env == DecodeEnvelope(DecodeString(out))
        IN  /\ env = xdrEnvelope
            /\ env.Tx.Operations = xdrEnvelope.Tx.Operations
            /\ env.Signatures = signLog

C22_Witness ==
    /\ lastCall = "Base64"
    /\ ret = NoError
    /\ Len(signLog) = 2
    /\ Len(xdrEnvelope.Tx.Operations) = 2
    /\ DecodeEnvelope(DecodeString(out)) = xdrEnvelope

\* C23: every signature the envelope holds is a signature over the hash of
\* the body the envelope holds.
C23_SignaturesOverEnvelopeBody ==
    xdrEnvelope # Nil =>
        \A i \in 1..Len(xdrEnvelope.Signatures) :
            \E n \in Networks \ {""} :
                xdrEnvelope.Signatures[i].Signature[2] = Hash(xdrEnvelope.Tx, n).hash

\* C24: after a successful Build the wire fee is the base fee times the
\* number of wire operations staged at that moment (cut to 32 bits).
C24_FeeFollowsStagedCount ==
    (lastCall = "Build" /\ ret = NoError) =>
        xdrTransaction.Fee = MulU32(BaseFee, Len(xdrTransaction.Operations))

\* C25: the wire fee a successful Build computes is the product of the base
\* fee and the number of staged operations as a number: the product fits 32
\* bits and the fee is that product, never the product modulo 2^32.
C25_FeeIsExactProduct ==
    [][(BuildStep /\ ret' = NoError /\ xdrTransaction.Fee = U32(0)) =>
          LET n == Len(xdrTransaction'.Operations)
              lo == BaseFee'[2] * n
              hi == BaseFee'[1] * n + (lo \div Half)
          IN  /\ hi < Half
              /\ xdrTransaction'.Fee = <<hi, lo % Half>>]_vars

\* C26: a Build that returns an error leaves the sequence number of the
\* account where it was; when the sequence number cannot be obtained no
\* operation is staged by that call.
C26_FailedBuildKeepsSequence ==
    [][(BuildStep /\ ret' # NoError) =>
          /\ SourceAccount'.Sequence = SourceAccount.Sequence
          /\ ~SourceAccount.parses =>
                xdrTransaction'.Operations = xdrTransaction.Operations]_vars

\* C29: whenever a Build attaches wire timebounds, MinTime and MaxTime are
\* not negative, the wire values are these numbers, and MaxTime is 0 or at
\* least MinTime.
C29_WireTimeboundsInRange ==
    [][(BuildStep /\ ret' = NoError /\ xdrTransaction'.TimeBounds # xdrTransaction.TimeBounds) =>
          /\ MinTime >= 0
          /\ MaxTime >= 0
          /\ xdrTransaction'.TimeBounds = [MinTime |-> <<0, 0, MinTime \div Half, MinTime % Half>>,
                                            MaxTime |-> <<0, 0, MaxTime \div Half, MaxTime % Half>>]
          /\ (MaxTime = 0 \/ MaxTime >= MinTime)]_vars

\* C27: Build runs its steps in the order source account, sequence number,
\* operations, timebounds, memo, fee, and a step that fails keeps every later
\* step from taking effect: when the sequence number fails, no operation,
\* timebounds, memo or fee is written; when an operation fails, neither the
\* timebounds, the memo nor the fee is written by that call; when the memo
\* fails, the operations and the timebounds are written and the fee policy is
\* not applied (BaseFee and the wire fee are what they were).
C27_FailureStopsLaterSteps ==
    [][(BuildStep /\ ret' # NoError) =>
          /\ xdrTransaction'.SourceAccount = SetAddress(xdrTransaction.SourceAccount,
                                                        GetAccountID(SourceAccount)).aid
          /\ xdrTransaction'.Fee = xdrTransaction.Fee
          /\ BaseFee' = BaseFee
          /\ xdrTransaction'.Memo = xdrTransaction.Memo
          /\ Head(ret') = "Failed to parse sequence number" =>
                /\ xdrTransaction'.SeqNum = xdrTransaction.SeqNum
                /\ xdrTransaction'.Operations = xdrTransaction.Operations
                /\ xdrTransaction'.TimeBounds = xdrTransaction.TimeBounds
          /\ Head(ret') = "Failed to build operation" =>
                /\ xdrTransaction'.SeqNum = SourceAccount'.Sequence
                /\ xdrTransaction'.TimeBounds = xdrTransaction.TimeBounds
          /\ Head(ret') = "Couldn't build memo XDR" =>
                /\ xdrTransaction'.SeqNum = SourceAccount'.Sequence
                /\ xdrTransaction'.Operations =
                      xdrTransaction.Operations \o Converted(Operations)
                /\ xdrTransaction'.TimeBounds =
                      SetTimeBounds(xdrTransaction, MinTime, MaxTime).TimeBounds
          /\ Head(ret') \in {"Failed to parse sequence number", "Failed to build operation",
                             "Couldn't build memo XDR"}]_vars

\* a first Build whose memo is too long: one operation and the timebounds are
\* staged, the fee is not
C27_Witness ==
    /\ lastCall = "Build" /\ nBuild = 1
    /\ ret = <<"Couldn't build memo XDR", "Memo text can't be longer than 28 bytes">>
    /\ Len(Operations) = 1 /\ Len(xdrTransaction.Operations) = 1
    /\ MaxTime = 3
    /\ xdrTransaction.TimeBounds # Nil
    /\ xdrTransaction.Fee = U32(0)
    /\ BaseFee = U32(0)

\* C30: BuildXDR of an AllowTrust checks the trustor before the asset: with a
\* trustor address that does not decode it returns the trustor-address error,
\* also when the asset is native; with a trustor that decodes and the native
\* asset it returns the native-asset error; and when it returns no error the
\* wire operation carries the Authorize flag of the AllowTrust and the
\* decoded Trustor address.
C30_TrustorBeforeAsset ==
    lastCall = "BuildXDR" =>
        /\ allowTrust.Trustor \notin ValidAddresses =>
              ret = Wrap(SetAddress(ZeroAccountId, allowTrust.Trustor).err,
                         "Failed to set trustor address")
        /\ (allowTrust.Trustor \in ValidAddresses /\ IsNative(allowTrust.Type)) =>
              ret = <<"Trustline doesn't exist for a native (XLM) asset">>
        /\ ret = NoError =>
              /\ out.Body.Type = "OperationTypeAllowTrust"
              /\ out.Body.Authorize = allowTrust.Authorize
              /\ out.Body.Trustor = [Ed25519 |-> allowTrust.Trustor]
              /\ allowTrust.Trustor \in ValidAddresses

\* a trustor that does not decode together with the native asset
C30_Witness ==
    /\ lastCall = "BuildXDR"
    /\ allowTrust.Trustor \in MalformedAddresses
    /\ IsNative(allowTrust.Type)
    /\ ret = <<"Failed to set trustor address", "invalid address">>
    /\ out = EmptyOperation

\* C28: a call of Transaction.SetTimeout returns an error and leaves MinTime
\* and MaxTime as they were when MaxTime is not 0, when the timeout is not
\* positive, or when the clock reading plus the timeout is below MinTime;
\* after a call that succeeds MaxTime >= MinTime; and once a call has
\* succeeded every later call fails, so that MaxTime stays the value the
\* first successful call set.
C28_SetTimeoutOnce ==
    [][SetTimeoutStep =>
          LET timeout == args'[1]
              now == args'[2]
          IN  /\ (MaxTime # 0 \/ timeout <= 0 \/ now + timeout < MinTime) =>
                    /\ ret' # NoError
                    /\ MinTime' = MinTime
                    /\ MaxTime' = MaxTime
              /\ ret' = NoError => MaxTime' >= MinTime'
              /\ timeoutLog # <<>> =>
                    /\ ret' # NoError
                    /\ MaxTime' = timeoutLog[1]
                    /\ timeoutLog' = timeoutLog]_vars

\* a second SetTimeout call after one that succeeded: it fails and MaxTime is
\* still the clock reading plus the timeout of the first call, 7 + 2
C28_Witness ==
    /\ lastCall = "SetTimeout" /\ nSet = 2
    /\ args = <<20, 7>>
    /\ ret = <<"Transaction.MaxTime has already been set - setting timeout would overwrite it">>
    /\ timeoutLog = <<9>>
    /\ MinTime = 9
    /\ MaxTime = 9

====
